---- MODULE Spec2Model ----
(***************************************************************************)
(* Model of kml2gpx: KML coordinate extraction (KmlParser), timestamp      *)
(* interpolation (set_times), track assembly (to_gpx / load_from_files)    *)
(* and argument validation (check_arguments / main), and of the Private    *)
(* Radar input handler (PrivateRadarHandler over the PrivateRadar API).    *)
(*                                                                         *)
(* Python values are represented as follows.                               *)
(*   Optional[x]   a sequence of length 0 (None) or 1 (<<x>>)              *)
(*   str (XML)     coordinate text is a sequence of lexemes: whitespace    *)
(*                 characters, the comma, and field lexemes                *)
(*   float         an integer number of tenths                             *)
(*   datetime      [us |-> microseconds on the datetime axis,              *)
(*                  aware |-> has a tzinfo]                                *)
(*   exception     its class name; NoExc when the call returned            *)
(***************************************************************************)
EXTENDS Integers, Sequences, FiniteSets, TLC

VARIABLES
    files,        \* file system: path -> Optional[document]
    kml,          \* KmlParser.kml : Optional[document]
    lastOp,       \* name of the last operation that ran
    lastArg,      \* its argument (a path, a layer name, ...)
    exc,          \* exception raised by the last operation, or NoExc
    coords,       \* list returned by the last get_coordinates call
    handler,      \* KmlInputHandler: in_files, layer, start_times, end_times
    validation,   \* outcome of the handler's check_arguments call
    track,        \* GPX track returned by the last assembly: its segments
    opened,       \* input files opened by the last operation, in order
    ret,          \* Optional[int] returned by the script's main
    written,      \* Optional[file written by main]: its path and its tracks
    radar,        \* PrivateRadarHandler: api, flight
    server,       \* how the Private Radar server answers a request
    apiCalls,     \* API clients built and requests sent by the last operation
    flightLoaded  \* some check_arguments call returned with a flight loaded

parserVars == <<kml, coords>>
assemblyVars == <<handler, validation, track, opened, ret, written>>
radarVars == <<radar, server, apiCalls, flightLoaded>>
vars == <<files, kml, lastOp, lastArg, exc, coords,
          handler, validation, track, opened, ret, written,
          radar, server, apiCalls, flightLoaded>>

----------------------------------------------------------------------------
(* Bounds *)

MaxRows == 2          \* coordinate rows in a generated coordinates text
MaxPlacemarks == 2    \* placemarks in a generated document
MaxFiles == 2         \* input files on a command line
MaxTimes == 2         \* start times, and end times, on a command line
MaxPoints == 5        \* points in a list handed to set_times
DatetimeMax == 11     \* datetime.max on the model's axis; datetime.min is 0

----------------------------------------------------------------------------
(* Python basics *)

None == <<>>
Some(x) == <<x>>
NoExc == "NoExc"

\* a local variable: v is computed once and named in Body
Bind(v, Body(_)) == CHOOSE y \in {Body(x) : x \in {v}} : TRUE

Whitespace == {" ", "\n", "\t"}
Comma == ","

RECURSIVE SplitWhitespace(_, _, _)
\* str.split(None): the maximal runs of non-whitespace lexemes
SplitWhitespace(rest, cur, acc) ==
    IF rest = <<>>
    THEN IF cur = <<>> THEN acc ELSE Append(acc, cur)
    ELSE IF Head(rest) \in Whitespace
         THEN SplitWhitespace(Tail(rest), <<>>,
                              IF cur = <<>> THEN acc ELSE Append(acc, cur))
         ELSE SplitWhitespace(Tail(rest), Append(cur, Head(rest)), acc)

RECURSIVE SplitSep(_, _, _, _)
\* str.split(sep): every field between separators, empty ones included
SplitSep(rest, sep, cur, acc) ==
    IF rest = <<>>
    THEN Append(acc, cur)
    ELSE IF Head(rest) = sep
         THEN SplitSep(Tail(rest), sep, <<>>, Append(acc, cur))
         ELSE SplitSep(Tail(rest), sep, Append(cur, Head(rest)), acc)

RECURSIVE Strip(_)
\* str.strip(): drop leading and trailing whitespace
Strip(s) ==
    IF s = <<>> THEN s
    ELSE IF Head(s) \in Whitespace THEN Strip(Tail(s))
    ELSE IF s[Len(s)] \in Whitespace THEN Strip(SubSeq(s, 1, Len(s) - 1))
    ELSE s

\* The numeric field lexemes and the float each one denotes, in tenths
FloatTable ==
    [x \in {"1.0", "2.0", "3.0", "4.0", "5.0", "6.0", "-0.5", "1e1"} |->
        CASE x = "1.0" -> 10
          [] x = "2.0" -> 20
          [] x = "3.0" -> 30
          [] x = "4.0" -> 40
          [] x = "5.0" -> 50
          [] x = "6.0" -> 60
          [] x = "-0.5" -> -5
          [] x = "1e1" -> 100]

\* float(s) raises ValueError unless s, stripped, is one numeric lexeme
FloatParses(s) == Len(Strip(s)) = 1 /\ Strip(s)[1] \in DOMAIN FloatTable
float(s) == FloatTable[Strip(s)[1]]

----------------------------------------------------------------------------
(* beans.TrackPoint *)

\* mutant: the coordinates stored in GPX order (latitude first)
TrackPoint_LatitudeFirst(lon, lat, alt) ==
    [longitude |-> lat, latitude |-> lon, altitude |-> alt, time |-> None]

TrackPoint(lon, lat, alt) ==
    [longitude |-> lon, latitude |-> lat, altitude |-> alt, time |-> None]

----------------------------------------------------------------------------
(* KML documents, as lxml presents them                                    *)
(*   document  [prefix, nsmap, placemarks]: the root element's prefix      *)
(*             (None for an unprefixed tag), its nsmap (prefix ->          *)
(*             namespace, the key NoPrefix standing for Python's None) and *)
(*             its Placemark elements in document order                    *)
(*   placemark [ns, direct, names, altitudeModes, coordinates]: the        *)
(*             namespace of the element and its descendants, whether it is *)
(*             a child of the root, the text of its name children, the     *)
(*             text of its LineString/altitudeMode elements and the text   *)
(*             (Optional) of its LineString/coordinates elements           *)

KML22 == "http://www.opengis.net/kml/2.2"
KML21 == "http://earth.google.com/kml/2.1"
NoNamespace == ""
NoPrefix == "None"

\* Element.find*("tag", nsmap): an unprefixed tag is looked up in the
\* default namespace of nsmap when it has one, in no namespace otherwise
SearchNamespace(nsmap) ==
    IF NoPrefix \in DOMAIN nsmap THEN nsmap[NoPrefix] ELSE NoNamespace

\* Element.findall("Placemark", nsmap) on the root
findall_Placemark(root) ==
    SelectSeq(root.placemarks,
              LAMBDA p : p.direct /\ p.ns = SearchNamespace(root.nsmap))

\* Element.findtext(path, None, nsmap): text of the first match, or None
findtext(texts) == IF texts = <<>> THEN None ELSE Some(Head(texts))

----------------------------------------------------------------------------
(* kml.KmlParser *)

\* KmlParser.load(in_path), given files[in_path]: the exception raised and
\* the new value of self.kml
load(self_kml, file) ==
    IF file = None
    THEN [exc |-> "FileNotFoundError", kml |-> self_kml]
    ELSE LET root == file[1] IN
         IF root.prefix \notin DOMAIN root.nsmap
         THEN [exc |-> "KeyError", kml |-> self_kml]
         ELSE IF root.nsmap[root.prefix] # KML22
              THEN [exc |-> "TypeError", kml |-> self_kml]
              ELSE [exc |-> NoExc, kml |-> Some(root)]

RECURSIVE FirstNamed_NoElse(_, _)
\* mutant: the loop without its else clause, which leaves the last
\* placemark bound when no name matches
FirstNamed_NoElse(placemarks, layer_name) ==
    IF placemarks = <<>> THEN None
    ELSE IF findtext(Head(placemarks).names) = Some(layer_name)
            \/ Len(placemarks) = 1
         THEN Some(Head(placemarks))
         ELSE FirstNamed_NoElse(Tail(placemarks), layer_name)

RECURSIVE FirstNamed_LastMatch(_, _)
\* mutant: the loop without its break, which keeps the last placemark
\* whose name matches
FirstNamed_LastMatch(placemarks, layer_name) ==
    IF placemarks = <<>> THEN None
    ELSE Bind(FirstNamed_LastMatch(Tail(placemarks), layer_name),
         LAMBDA later :
         IF later # None THEN later
         ELSE IF findtext(Head(placemarks).names) = Some(layer_name)
              THEN Some(Head(placemarks))
              ELSE None)

RECURSIVE FirstNamed(_, _)
\* the for/else loop over the placemarks: the first one whose name text
\* equals layer_name, or None when the loop runs to its end
FirstNamed(placemarks, layer_name) ==
    IF placemarks = <<>> THEN None
    ELSE IF findtext(Head(placemarks).names) = Some(layer_name)
         THEN Some(Head(placemarks))
         ELSE FirstNamed(Tail(placemarks), layer_name)

\* mutant: rows of more than three fields pass the length test
ParseRow_AtLeastThree(row) ==
    LET str_values == SplitSep(Strip(row), Comma, <<>>, <<>>) IN
    IF Len(str_values) < 3
    THEN [exc |-> "ValueError", point |-> None]
    ELSE IF \E i \in 1..3 : ~FloatParses(str_values[i])
         THEN [exc |-> "ValueError", point |-> None]
         ELSE [exc |-> NoExc,
               point |-> Some(TrackPoint(float(str_values[1]),
                                         float(str_values[2]),
                                         float(str_values[3])))]

\* one iteration of the loop over the rows, for a non-blank row: the
\* exception raised, or the TrackPoint appended
ParseRow(row) ==
    LET str_values == SplitSep(Strip(row), Comma, <<>>, <<>>) IN
    IF Len(str_values) # 3
    THEN [exc |-> "ValueError", point |-> None]
    ELSE IF \E i \in 1..3 : ~FloatParses(str_values[i])
         THEN [exc |-> "ValueError", point |-> None]
         ELSE [exc |-> NoExc,
               point |-> Some(TrackPoint(float(str_values[1]),
                                         float(str_values[2]),
                                         float(str_values[3])))]

RECURSIVE ParseRows(_, _)
\* the loop over coords_list_raw.split(None)
ParseRows(rows, acc) ==
    IF rows = <<>> THEN [exc |-> NoExc, coords |-> acc]
    ELSE LET row == Strip(Head(rows)) IN
         IF row = <<>> THEN ParseRows(Tail(rows), acc)
         ELSE Bind(ParseRow(row), LAMBDA r :
                  IF r.exc # NoExc THEN [exc |-> r.exc, coords |-> <<>>]
                  ELSE ParseRows(Tail(rows), Append(acc, r.point[1])))

\* mutant: a missing altitudeMode passes for absolute
AltitudeModeSupported_OrMissing(alt_mode) ==
    alt_mode = None \/ alt_mode = Some("absolute")

\* the test of the altitude mode read by findtext
AltitudeModeSupported(alt_mode) == alt_mode = Some("absolute")

\* KmlParser.get_coordinates(layer_name): the exception raised, or NoExc
\* and the list returned
get_coordinates(self_kml, layer_name) ==
    IF self_kml = None
    THEN [exc |-> "IOError", coords |-> <<>>]
    ELSE LET found == FirstNamed(findall_Placemark(self_kml[1]), layer_name) IN
         IF found = None
         THEN [exc |-> "KeyError", coords |-> <<>>]
         ELSE LET placemark == found[1]
                  alt_mode == findtext(placemark.altitudeModes)
                  nodes == placemark.coordinates
              IN  IF ~AltitudeModeSupported(alt_mode)
                  THEN [exc |-> "ValueError", coords |-> <<>>]
                  ELSE IF nodes = <<>>
                       THEN [exc |-> "ValueError", coords |-> <<>>]
                       ELSE IF nodes[1] = None
                            THEN [exc |-> "AttributeError", coords |-> <<>>]
                            ELSE ParseRows(
                                     SplitWhitespace(nodes[1][1], <<>>, <<>>),
                                     <<>>)

----------------------------------------------------------------------------
(* Input documents *)

TokenA == <<"1.0", ",", "2.0", ",", "3.0">>
TokenB == <<"4.0", ",", "5.0", ",", "6.0">>
TokenC == <<"-0.5", ",", "1e1", ",", "1.0">>
TokenTwoFields == <<"1.0", ",", "2.0">>
TokenFourFields == <<"1.0", ",", "2.0", ",", "3.0", ",", "4.0">>
TokenNotNumeric == <<"1.0", ",", "abc", ",", "3.0">>
TokenEmptyField == <<"1.0", ",", ",", "3.0">>

ValidTokens == {TokenA, TokenB, TokenC}
Tokens == ValidTokens \cup
          {TokenTwoFields, TokenFourFields, TokenNotNumeric, TokenEmptyField}
Gaps == {<<" ">>, <<"\n", "\t">>}
Margins == {<<>>, <<"\n">>}

RECURSIVE TokenRuns(_)
\* n tokens with a gap between neighbours
TokenRuns(n) ==
    IF n = 1 THEN Tokens
    ELSE {r \o g \o t : r \in TokenRuns(n - 1), g \in Gaps, t \in Tokens}

\* the coordinates texts: blank ones, and 1..MaxRows tokens with margins
CoordinateTexts ==
    Margins \cup Gaps \cup
    UNION {{m1 \o r \o m2 : m1 \in Margins, r \in TokenRuns(n), m2 \in Margins}
           : n \in 1..MaxRows}

StandardNsmap == [p \in {NoPrefix} |-> KML22]

Placemark(ns, direct, names, altitudeModes, coordinates) ==
    [ns |-> ns, direct |-> direct, names |-> names,
     altitudeModes |-> altitudeModes, coordinates |-> coordinates]

Document(prefix, nsmap, placemarks) ==
    [prefix |-> prefix, nsmap |-> nsmap, placemarks |-> placemarks]

\* one Altitude placemark in absolute mode; its coordinates vary: no
\* coordinates element, an element without text, an element with a text
CoordinateDocuments ==
    {Document(NoPrefix, StandardNsmap,
              <<Placemark(KML22, TRUE, <<"Altitude">>, <<"absolute">>, c)>>)
     : c \in {<<>>, <<None>>} \cup {<<Some(t)>> : t \in CoordinateTexts}}

\* the i-th placemark of a document carries its own coordinates
TextOfPosition(i) ==
    <<Some(<<"1.0", ",", "2.0", ",", (<<"3.0", "4.0", "5.0", "6.0">>)[i]>>)>>

PlacemarkShapes ==
    {Placemark(v[1], v[2], n, a, <<>>)
     : v \in {<<KML22, TRUE>>, <<KML22, FALSE>>, <<NoNamespace, TRUE>>},
       n \in {<<>>, <<"Altitude">>, <<"Speed">>},
       a \in {<<>>, <<"absolute">>, <<"clampToGround">>}}

RECURSIVE PlacemarkLists(_)
PlacemarkLists(n) ==
    IF n = 0 THEN {<<>>}
    ELSE {Append(l, [p EXCEPT !.coordinates = TextOfPosition(n)])
          : l \in PlacemarkLists(n - 1), p \in PlacemarkShapes}

\* placemarks vary under the standard root
LayerDocuments ==
    {Document(NoPrefix, StandardNsmap, l)
     : l \in UNION {PlacemarkLists(n) : n \in 0..MaxPlacemarks}}

\* roots vary: every nsmap over the prefixes None and k; a prefixed root
\* has its prefix declared
Nsmaps ==
    UNION {[d -> {KML22, KML21}] : d \in SUBSET {NoPrefix, "k"}}

RootDocuments ==
    {d \in {Document(p, m, <<Placemark(ns, TRUE, <<"Altitude">>,
                                       <<"absolute">>, <<Some(TokenA)>>)>>)
            : p \in {NoPrefix, "k"}, m \in Nsmaps,
              ns \in {KML22, KML21, NoNamespace}}
     : d.prefix = NoPrefix \/ d.prefix \in DOMAIN d.nsmap}

Documents == CoordinateDocuments \cup LayerDocuments \cup RootDocuments

----------------------------------------------------------------------------
(* datetime arithmetic.  A datetime is a number of microseconds, the       *)
(* resolution of the type, on an axis from datetime.min to datetime.max,   *)
(* and is naive or aware.                                                  *)

Datetime(us, aware) == [us |-> us, aware |-> aware]

\* mutant: floor division of the interval
DivideAndRound_Floor(a, b) == a \div b

\* timedelta / int: the quotient rounded to the nearest microsecond, ties
\* going to the even one (b > 0)
DivideAndRound(a, b) ==
    LET q == a \div b
        r == a % b
    IN  IF 2 * r > b \/ (2 * r = b /\ q % 2 = 1) THEN q + 1 ELSE q

RECURSIVE SetTimesLoop(_, _, _, _)
\* the loop of set_times from index i on: coord.time = time, then
\* time += time_delta, which raises OverflowError outside the datetime range
SetTimesLoop(points, i, time, time_delta) ==
    IF i > Len(points) THEN [exc |-> NoExc, coords |-> points]
    ELSE LET assigned == [points EXCEPT ![i].time = Some(time)]
             next == time.us + time_delta
         IN  IF next < 0 \/ next > DatetimeMax
             THEN [exc |-> "OverflowError", coords |-> assigned]
             ELSE SetTimesLoop(assigned, i + 1,
                               Datetime(next, time.aware), time_delta)

\* mutant: the time is advanced before it is given to a point
set_times_AdvanceFirst(points, start_time, end_time) ==
    IF start_time.aware # end_time.aware
    THEN [exc |-> "TypeError", coords |-> points]
    ELSE IF Len(points) = 0
         THEN [exc |-> "ZeroDivisionError", coords |-> points]
         ELSE Bind(DivideAndRound(end_time.us - start_time.us, Len(points)),
              LAMBDA time_delta :
              IF start_time.us + time_delta < 0
                 \/ start_time.us + time_delta > DatetimeMax
              THEN [exc |-> "OverflowError", coords |-> points]
              ELSE SetTimesLoop(points, 1,
                                Datetime(start_time.us + time_delta,
                                         start_time.aware),
                                time_delta))

\* set_times(coords, start_time, end_time): the exception raised and the
\* list as the call leaves it
set_times(points, start_time, end_time) ==
    IF start_time.aware # end_time.aware
    THEN [exc |-> "TypeError", coords |-> points]
    ELSE IF Len(points) = 0
         THEN [exc |-> "ZeroDivisionError", coords |-> points]
         ELSE SetTimesLoop(points, 1, start_time,
                           DivideAndRound(end_time.us - start_time.us,
                                          Len(points)))

----------------------------------------------------------------------------
(* Track assembly *)

\* TrackPoint.to_gpx(): the gpxpy point, latitude first
GPXTrackPoint(trk) ==
    [latitude |-> trk.latitude, longitude |-> trk.longitude,
     elevation |-> trk.altitude, time |-> trk.time]

\* mutant: the new segment put in front of the track
AppendSegment_InFront(segments, points) == <<points>> \o segments

\* gpx_track.segments.append(gpx_segment)
AppendSegment(segments, points) == Append(segments, points)

\* mutant: the points are stamped as soon as a start time is given, a
\* missing end time standing for the start time
UpdateTimes_StartOnly(points, start_time, end_time) ==
    IF start_time # None
    THEN set_times(points, start_time[1],
                   IF end_time = None THEN start_time[1] ELSE end_time[1])
    ELSE [exc |-> NoExc, coords |-> points]

\* "Update times": set_times is called when both times are given
UpdateTimes(points, start_time, end_time) ==
    IF start_time # None /\ end_time # None
    THEN set_times(points, start_time[1], end_time[1])
    ELSE [exc |-> NoExc, coords |-> points]

\* mutant: the exception of a file is caught and the file gives no points
FileFailed_Caught(e, seen) ==
    [exc |-> NoExc, opened |-> seen, points |-> <<>>]

\* an exception raised while a file is parsed or stamped leaves the loop
FileFailed(e, seen) == [exc |-> e, opened |-> seen, points |-> <<>>]

\* the body of the loop over the files: parse one file, stamp its points
\* when both times are given, and make its segment
ParseFile(fs, in_file, layer, start_time, end_time) ==
    LET seen == IF fs[in_file] = None THEN <<>> ELSE <<in_file>> IN
    Bind(load(None, fs[in_file]), LAMBDA loaded :
    IF loaded.exc # NoExc THEN FileFailed(loaded.exc, seen)
    ELSE Bind(get_coordinates(loaded.kml, layer), LAMBDA got :
         IF got.exc # NoExc THEN FileFailed(got.exc, seen)
         ELSE Bind(UpdateTimes(got.coords, start_time, end_time),
              LAMBDA timed :
              IF timed.exc # NoExc THEN FileFailed(timed.exc, seen)
              ELSE [exc |-> NoExc, opened |-> seen,
                    points |-> [i \in DOMAIN timed.coords |->
                                   GPXTrackPoint(timed.coords[i])]])))

RECURSIVE ParseFiles(_, _, _, _, _, _, _, _)
\* the loop over zip(in_files, start_times, end_times), from index i on
ParseFiles(fs, in_files, start_times, end_times, layer, i, segments, seen) ==
    IF i > Len(in_files) \/ i > Len(start_times) \/ i > Len(end_times)
    THEN [exc |-> NoExc, track |-> segments, opened |-> seen]
    ELSE Bind(ParseFile(fs, in_files[i], layer,
                        start_times[i], end_times[i]), LAMBDA r :
             IF r.exc # NoExc
             THEN [exc |-> r.exc, track |-> <<>>, opened |-> seen \o r.opened]
             ELSE ParseFiles(fs, in_files, start_times, end_times, layer,
                             i + 1, AppendSegment(segments, r.points),
                             seen \o r.opened))

\* KmlInputHandler.to_gpx()
to_gpx(fs, self) ==
    ParseFiles(fs, self.in_files, self.start_times, self.end_times,
               self.layer, 1, <<>>, <<>>)

\* main.load_from_files(in_files, start_times, end_times, layer)
load_from_files(fs, in_files, start_times, end_times, layer) ==
    IF Len(start_times) # Len(in_files) \/ Len(end_times) # Len(in_files)
    THEN [exc |-> "ValueError", track |-> <<>>, opened |-> <<>>]
    ELSE IF layer = ""
         THEN [exc |-> "ValueError", track |-> <<>>, opened |-> <<>>]
         ELSE ParseFiles(fs, in_files, start_times, end_times, layer,
                         1, <<>>, <<>>)

----------------------------------------------------------------------------
(* Argument validation *)

\* the ISO-8601 strings of the command lines and the datetimes
\* datetime.fromisoformat makes of them
IsoTable ==
    [x \in {"0001-01-01T00:00:00.000000", "0001-01-01T00:00:00.000005"} |->
        IF x = "0001-01-01T00:00:00.000000"
        THEN Datetime(0, FALSE) ELSE Datetime(5, FALSE)]
fromisoformat(raw) == IsoTable[raw]

\* [None] * n
Nones(n) == [i \in 1..n |-> None]
ParseTimes(raws) == [i \in DOMAIN raws |-> Some(fromisoformat(raws[i]))]

\* mutant: no test of the number of times against the number of files
TimesMatchFiles_Unchecked(nb_start, nb_end, nb_files) == nb_start = nb_end

\* the two tests of kml.check_arguments on the number of times
TimesMatchFiles(nb_start, nb_end, nb_files) ==
    /\ nb_start = nb_end
    /\ ~(nb_start # nb_files /\ nb_start # nb_files)

\* KmlInputHandler.check_arguments(options): the exception raised and the
\* handler's fields as the call leaves them
check_arguments(fs, self, options) ==
    LET s1 == [self EXCEPT !.layer = options.layer]
        s2 == [s1 EXCEPT !.in_files = options.input]
        nb_files == Len(options.input)
    IN  IF options.layer = ""
        THEN [exc |-> "ValueError", self |-> s1]
        ELSE IF options.input = <<>>
        THEN [exc |-> "ValueError", self |-> s2]
        ELSE IF \E i \in DOMAIN options.input : fs[options.input[i]] = None
        THEN [exc |-> "ValueError", self |-> s2]
        ELSE IF ~TimesMatchFiles(Len(options.start), Len(options.end),
                                 nb_files)
        THEN [exc |-> "ValueError", self |-> s2]
        ELSE IF options.start = <<>>
        THEN [exc |-> NoExc,
              self |-> [s2 EXCEPT !.start_times = Nones(nb_files),
                                  !.end_times = Nones(nb_files)]]
        ELSE [exc |-> NoExc,
              self |-> [s2 EXCEPT !.start_times = ParseTimes(options.start),
                                  !.end_times = ParseTimes(options.end)]]

\* the two tests of the script's main on the number of times
TimesMatchFilesScript(nb_start, nb_end, nb_files) ==
    /\ nb_start = nb_end
    /\ ~(nb_start # 0 /\ nb_files # nb_start)

\* in_files[0].with_suffix(".gpx")
with_suffix_gpx ==
    [p \in {"a.kml", "b.kml", "bad.kml", "blank.kml", "missing.kml"} |->
        CASE p = "a.kml" -> "a.gpx"
          [] p = "b.kml" -> "b.gpx"
          [] p = "bad.kml" -> "bad.gpx"
          [] p = "blank.kml" -> "blank.gpx"
          [] p = "missing.kml" -> "missing.gpx"]

\* the script's main(args), after argparse: the value returned or the
\* exception that leaves it, the files opened and the file written
main(fs, options) ==
    LET quit == [ret |-> Some(1), exc |-> NoExc, opened |-> <<>>,
                 track |-> <<>>, written |-> None]
        nb_files == Len(options.input)
    IN  IF options.input = <<>> THEN quit
        ELSE IF \E i \in DOMAIN options.input : fs[options.input[i]] = None
        THEN quit
        ELSE IF ~TimesMatchFilesScript(Len(options.start), Len(options.end),
                                       nb_files)
        THEN quit
        ELSE LET start_times == IF options.start = <<>> THEN Nones(nb_files)
                                ELSE ParseTimes(options.start)
                 end_times == IF options.start = <<>> THEN Nones(nb_files)
                              ELSE ParseTimes(options.end)
                 output == with_suffix_gpx[options.input[1]]
             IN  Bind(load_from_files(fs, options.input, start_times,
                                      end_times, options.layer), LAMBDA r :
                 IF r.exc # NoExc
                 THEN [ret |-> None, exc |-> r.exc, opened |-> r.opened,
                       track |-> <<>>, written |-> None]
                 ELSE [ret |-> Some(0), exc |-> NoExc, opened |-> r.opened,
                       track |-> r.track,
                       written |-> Some([path |-> output,
                                         tracks |-> <<r.track>>])])

\* a handler as KmlInputHandler.__init__ leaves it
NewHandler ==
    [in_files |-> <<>>, layer |-> "Altitude",
     start_times |-> <<>>, end_times |-> <<>>]

NoAssembly ==
    /\ handler = NewHandler
    /\ validation = "NotCalled"
    /\ track = <<>>
    /\ opened = <<>>
    /\ ret = None
    /\ written = None

----------------------------------------------------------------------------
(* private_radar.PrivateRadar and PrivateRadarHandler                      *)
(*                                                                         *)
(* A configuration file is [section |-> it has a PRIVATE_RADAR section,    *)
(* url, token |-> Optional[value of that option]].  The server answers     *)
(* every request the same way until it changes: "up" (status success),     *)
(* "failure" (a status other than success) or "down" (an HTTP error).      *)

\* the truth value Python gives to an Optional[str]
Truthy(v) == v # None /\ v[1] # ""

\* the names _find_conf looks for, in the order it tries them
WellKnownPaths == <<"./kml2gpx.ini", "./private_radar.ini">>

RECURSIVE FirstExisting(_, _)
FirstExisting(fs, paths) ==
    IF paths = <<>> THEN None
    ELSE IF fs[Head(paths)] # None THEN Some(Head(paths))
         ELSE FirstExisting(fs, Tail(paths))

\* PrivateRadarHandler._find_conf()
find_conf(fs) == FirstExisting(fs, WellKnownPaths)

PRFlight(id, from_icao, to_icao, start) ==
    [id |-> id, from_icao |-> from_icao, to_icao |-> to_icao,
     start |-> start]

\* the flights the server knows, the last one first, and the path it
\* gives for each of them
ServerFlights ==
    <<PRFlight(9, "LFLS", "LFLG", "2020-05-18"),
      PRFlight(7, "LFLG", "LFLS", "2020-05-17")>>
ServerPath ==
    <<[lon |-> 10, lat |-> 20, alt_m |-> 30, time |-> 1000],
      [lon |-> 40, lat |-> 50, alt_m |-> 60, time |-> 2000]>>

\* PrivateRadar(base_url, auth)
PrivateRadar(base_url, auth) == [base_url |-> base_url, auth |-> auth]

\* what is recorded of a constructor call or of a request
ApiCall(op, api, id) ==
    [op |-> op, base_url |-> api.base_url, auth |-> api.auth, id |-> id]

\* PrivateRadar.list_flights(nb_flights, flight_id)
list_flights(api, srv, nb_flights, flight_id) ==
    LET sent == <<ApiCall("getFlightsFilter6", api, flight_id)>>
        asked == IF flight_id = None THEN ServerFlights
                 ELSE SelectSeq(ServerFlights,
                                LAMBDA f : f.id = flight_id[1])
    IN  IF srv = "down"
        THEN [exc |-> "HTTPError", flights |-> <<>>, calls |-> sent]
        ELSE IF srv # "up"
        THEN [exc |-> "OSError", flights |-> <<>>, calls |-> sent]
        ELSE [exc |-> NoExc, calls |-> sent,
              flights |-> IF Len(asked) <= nb_flights THEN asked
                          ELSE SubSeq(asked, 1, nb_flights)]

\* PrivateRadar.get_flight(flight_id): the flight of that ID, or for a
\* negative ID the flight that many places from the last one
get_flight(api, srv, flight_id) ==
    LET index == IF flight_id >= 0 THEN 1 ELSE -flight_id IN
    Bind(IF flight_id >= 0
         THEN list_flights(api, srv, 100, Some(flight_id))
         ELSE list_flights(api, srv, -flight_id, None), LAMBDA r :
    IF r.exc # NoExc
    THEN [exc |-> r.exc, flight |-> None, calls |-> r.calls]
    ELSE IF index > Len(r.flights)
    THEN [exc |-> "IndexError", flight |-> None, calls |-> r.calls]
    ELSE [exc |-> NoExc, flight |-> Some(r.flights[index]),
          calls |-> r.calls])

\* datetime.fromtimestamp(node["time"] * 10 ** -3): the naive local time
\* of the instant, kept as its count of microseconds since the epoch
fromtimestamp_ms(ms) == [epoch_us |-> ms * 1000, aware |-> FALSE]

\* PrivateRadar.flight_path(flight), for a flight that is a PRFlight or
\* None: no request is sent for a value of another type than PRFlight, int
flight_path(api, srv, flight) ==
    LET sent == IF flight = None THEN <<>>
                ELSE <<ApiCall("get_path", api, Some(flight[1].id))>> IN
    IF flight = None
    THEN [exc |-> "TypeError", points |-> <<>>, calls |-> sent]
    ELSE IF srv = "down"
    THEN [exc |-> "HTTPError", points |-> <<>>, calls |-> sent]
    ELSE IF srv # "up"
    THEN [exc |-> "ValueError", points |-> <<>>, calls |-> sent]
    ELSE [exc |-> NoExc, calls |-> sent,
          points |-> [i \in DOMAIN ServerPath |->
                         [TrackPoint(ServerPath[i].lon, ServerPath[i].lat,
                                     ServerPath[i].alt_m)
                          EXCEPT !.time =
                              Some(fromtimestamp_ms(ServerPath[i].time))]]]

\* a handler as PrivateRadarHandler.__init__ leaves it
NewRadarHandler == [api |-> None, flight |-> None]

\* PrivateRadarHandler.print_flights(nb_flights)
print_flights(self, srv, nb_flights) ==
    IF self.api = None
    THEN [exc |-> NoExc, ret |-> Some(1), calls |-> <<>>]
    ELSE Bind(list_flights(self.api[1], srv, nb_flights, None), LAMBDA r :
         IF r.exc # NoExc
         THEN [exc |-> r.exc, ret |-> None, calls |-> r.calls]
         ELSE [exc |-> NoExc, ret |-> Some(0), calls |-> r.calls])

\* the first part of check_arguments: the URL and the token read from the
\* configuration file, when there is one
ReadConfiguration(fs, options) ==
    LET none == [exc |-> NoExc, url |-> None, token |-> None]
        conf_path == IF options.conf # None THEN options.conf
                     ELSE find_conf(fs)
    IN  IF conf_path = None THEN none
        ELSE IF fs[conf_path[1]] = None
        THEN [none EXCEPT !.exc = "ValueError"]
        ELSE LET config == fs[conf_path[1]][1] IN
             IF ~config.section THEN [none EXCEPT !.exc = "ValueError"]
             ELSE IF config.url = None \/ config.token = None
             THEN [none EXCEPT !.exc = "NoOptionError"]
             ELSE [exc |-> NoExc, url |-> config.url,
                   token |-> config.token]

\* "Override with arguments, if any"
Override(value, argument) == IF Truthy(argument) THEN argument ELSE value

\* the end of check_arguments without --list: the flight ID is required
\* and self.flight is set once get_flight returned
LoadFlight(self, srv, flight_id) ==
    IF flight_id = None
    THEN [exc |-> "ValueError", self |-> self, calls |-> <<>>]
    ELSE Bind(get_flight(self.api[1], srv, flight_id[1]), LAMBDA r :
         IF r.exc # NoExc
         THEN [exc |-> r.exc, self |-> self, calls |-> r.calls]
         ELSE [exc |-> NoExc, self |-> [self EXCEPT !.flight = r.flight],
               calls |-> r.calls])

\* PrivateRadarHandler.check_arguments(options): the exception raised, the
\* value returned, the handler's fields and the calls made
radar_check_arguments(fs, srv, self, options) ==
    LET failed(e) == [exc |-> e, ret |-> None, self |-> self,
                      calls |-> <<>>]
    IN  Bind(ReadConfiguration(fs, options), LAMBDA conf :
        IF conf.exc # NoExc THEN failed(conf.exc)
        ELSE Bind(<<Override(conf.url, options.url),
                    Override(conf.token, options.auth)>>, LAMBDA used :
        IF ~Truthy(used[1]) \/ ~Truthy(used[2]) THEN failed("ValueError")
        ELSE Bind([self EXCEPT
                      !.api = Some(PrivateRadar(used[1][1], used[2][1]))],
             LAMBDA s1 :
             LET built == <<ApiCall("PrivateRadar", s1.api[1], None)>> IN
             IF options.list
             THEN Bind(print_flights(s1, srv, options.nb), LAMBDA r :
                  [exc |-> r.exc, ret |-> r.ret, self |-> s1,
                   calls |-> built \o r.calls])
             ELSE Bind(LoadFlight(s1, srv, options.flight), LAMBDA r :
                  [exc |-> r.exc, ret |-> None, self |-> r.self,
                   calls |-> built \o r.calls]))))

\* PrivateRadarHandler.get_default_output_path(): the date of the flight
\* and its airports, or None
get_default_output_path(self) ==
    IF self.flight = None THEN None
    ELSE Some(<<self.flight[1].start, "-", self.flight[1].from_icao, "-",
                self.flight[1].to_icao, ".gpx">>)

\* mutant: the path is asked for without the test of self.flight
radar_to_gpx_NoFlightTest(self, srv) ==
    IF self.api = None
    THEN [exc |-> "ValueError", track |-> <<>>, calls |-> <<>>]
    ELSE Bind(flight_path(self.api[1], srv, self.flight), LAMBDA r :
         IF r.exc # NoExc
         THEN [exc |-> r.exc, track |-> <<>>, calls |-> r.calls]
         ELSE [exc |-> NoExc, calls |-> r.calls,
               track |-> <<[i \in DOMAIN r.points |->
                               GPXTrackPoint(r.points[i])]>>])

\* PrivateRadarHandler.to_gpx(): a track of one segment
radar_to_gpx(self, srv) ==
    IF self.api = None \/ self.flight = None
    THEN [exc |-> "ValueError", track |-> <<>>, calls |-> <<>>]
    ELSE Bind(flight_path(self.api[1], srv, self.flight), LAMBDA r :
         IF r.exc # NoExc
         THEN [exc |-> r.exc, track |-> <<>>, calls |-> r.calls]
         ELSE [exc |-> NoExc, calls |-> r.calls,
               track |-> <<[i \in DOMAIN r.points |->
                               GPXTrackPoint(r.points[i])]>>])

NoRadar ==
    /\ radar = NewRadarHandler
    /\ server = "up"
    /\ apiCalls = <<>>
    /\ flightLoaded = FALSE


Paths == {"in.kml", "missing.kml"}
Layers == {"Altitude", "Speed"}

----------------------------------------------------------------------------
(* A KmlParser object and a file system holding one document *)

InitExtract ==
    /\ \E d \in Documents :
          files = [p \in Paths |-> IF p = "in.kml" THEN Some(d) ELSE None]
    /\ kml = None
    /\ lastOp = "init"
    /\ lastArg = ""
    /\ exc = NoExc
    /\ coords = <<>>
    /\ NoAssembly
    /\ NoRadar

KmlParser_load(in_path) ==
    \E r \in {load(kml, files[in_path])} :
    /\ kml' = r.kml
    /\ exc' = r.exc
    /\ lastOp' = "load"
    /\ lastArg' = in_path
    /\ coords' = <<>>
    /\ UNCHANGED <<files, assemblyVars, radarVars>>

KmlParser_get_coordinates(layer_name) ==
    \E r \in {get_coordinates(kml, layer_name)} :
    /\ exc' = r.exc
    /\ coords' = r.coords
    /\ lastOp' = "get_coordinates"
    /\ lastArg' = layer_name
    /\ UNCHANGED <<files, kml, assemblyVars, radarVars>>

NextExtract ==
    \/ \E p \in Paths : KmlParser_load(p)
    \/ \E l \in Layers : KmlParser_get_coordinates(l)

SpecExtract == InitExtract /\ [][NextExtract]_vars

----------------------------------------------------------------------------
(* Vocabulary of the extraction properties, stated on the document rather  *)
(* than through the parser's operators                                     *)

Min(S) == CHOOSE x \in S : \A y \in S : x <= y

\* a get_coordinates call ran on a loaded parser
Extracted == lastOp = "get_coordinates" /\ kml # None

\* positions of the placemarks the search can select for a layer name
NamedPositions(root, layer) ==
    {i \in 1..Len(root.placemarks) :
        LET p == root.placemarks[i] IN
        /\ p.direct
        /\ p.ns = SearchNamespace(root.nsmap)
        /\ p.names # <<>>
        /\ p.names[1] = layer}

HasSelected == Extracted /\ NamedPositions(kml[1], lastArg) # {}
Selected == kml[1].placemarks[Min(NamedPositions(kml[1], lastArg))]
SelectedAbsolute ==
    /\ HasSelected
    /\ Selected.altitudeModes # <<>>
    /\ Selected.altitudeModes[1] = "absolute"
SelectedHasText ==
    /\ SelectedAbsolute
    /\ Selected.coordinates # <<>>
    /\ Selected.coordinates[1] # None
SelectedText == Selected.coordinates[1][1]

\* the whitespace-separated tokens of a text, by their positions
TokenStarts(t) ==
    {i \in 1..Len(t) : t[i] \notin Whitespace
                       /\ (i = 1 \/ t[i - 1] \in Whitespace)}
TokenEnd(t, i) ==
    Min({e \in i..Len(t) : e = Len(t) \/ t[e + 1] \in Whitespace})
TextTokens(t) ==
    [k \in 1..Cardinality(TokenStarts(t)) |->
        LET i == CHOOSE x \in TokenStarts(t) :
                     Cardinality({y \in TokenStarts(t) : y <= x}) = k
        IN  SubSeq(t, i, TokenEnd(t, i))]

\* lon,lat,alt: three numeric fields and two commas
ValidToken(tok) ==
    /\ Len(tok) = 5
    /\ tok[2] = Comma /\ tok[4] = Comma
    /\ {tok[1], tok[3], tok[5]} \subseteq DOMAIN FloatTable
PointOfToken(tok) ==
    [longitude |-> FloatTable[tok[1]], latitude |-> FloatTable[tok[3]],
     altitude |-> FloatTable[tok[5]], time |-> None]

----------------------------------------------------------------------------
(* C1: when the selected placemark is in absolute mode and its coordinate  *)
(* text consists of valid lon,lat,alt tokens, get_coordinates returns      *)
(* exactly one TrackPoint per token, in token order, with the token's      *)
(* longitude, latitude and altitude and no timestamp.                      *)
C1_PointsFollowTokens ==
    (SelectedHasText
     /\ \A k \in DOMAIN TextTokens(SelectedText) :
            ValidToken(TextTokens(SelectedText)[k]))
    => /\ exc = NoExc
       /\ Len(coords) = Len(TextTokens(SelectedText))
       /\ \A k \in DOMAIN coords :
              coords[k] = PointOfToken(TextTokens(SelectedText)[k])

C1_Witness ==
    /\ SelectedHasText
    /\ exc = NoExc
    /\ Len(coords) = 2
    /\ coords[1].longitude # coords[1].latitude
    /\ coords[1] # coords[2]
    /\ Head(SelectedText) \in Whitespace

(* C6: extraction never returns an empty sequence: without a coordinates   *)
(* element, or with an empty coordinate list (no text, or only             *)
(* whitespace), get_coordinates raises ValueError.                         *)
C6_EmptyCoordinatesRaise ==
    (SelectedAbsolute
     /\ (\/ Selected.coordinates = <<>>
         \/ Selected.coordinates[1] = None
         \/ TokenStarts(Selected.coordinates[1][1]) = {}))
    => exc = "ValueError"

(* C7: loading a document whose root namespace is not the KML 2.2          *)
(* namespace, a root without namespace included, raises TypeError.         *)
RootHasNamespace(root) == root.prefix \in DOMAIN root.nsmap
C7_ForeignRootRaisesTypeError ==
    (/\ lastOp = "load"
     /\ files[lastArg] # None
     /\ (RootHasNamespace(files[lastArg][1])
            => files[lastArg][1].nsmap[files[lastArg][1].prefix] # KML22))
    => exc = "TypeError"

(* C8: get_coordinates raises ValueError, and returns no points, whenever  *)
(* the selected placemark's altitudeMode text is not exactly "absolute",   *)
(* an absent altitudeMode included.                                        *)
C8_NonAbsoluteRaises ==
    (HasSelected /\ ~SelectedAbsolute)
    => exc = "ValueError" /\ coords = <<>>

C8_Witness ==
    /\ HasSelected
    /\ Selected.altitudeModes = <<>>
    /\ Selected.coordinates # <<>>
    /\ exc = "ValueError"

(* C9: get_coordinates raises KeyError when no placemark of the document   *)
(* has a name equal to the requested layer name.                           *)
C9_UnknownLayerRaisesKeyError ==
    (Extracted
     /\ \A i \in DOMAIN kml[1].placemarks :
            \A j \in DOMAIN kml[1].placemarks[i].names :
                kml[1].placemarks[i].names[j] # lastArg)
    => exc = "KeyError" /\ coords = <<>>

C9_Witness ==
    /\ Extracted
    /\ Len(kml[1].placemarks) = 2
    /\ \A i \in 1..2 : kml[1].placemarks[i].direct
    /\ kml[1].placemarks[1].names = <<"Altitude">>
    /\ kml[1].placemarks[2].names = <<>>
    /\ lastArg = "Speed"
    /\ exc = "KeyError"

(* C10: extraction is fail-fast: if any token of the selected placemark's  *)
(* coordinate text is not three comma-separated numeric fields,            *)
(* get_coordinates raises ValueError and returns no points, whatever       *)
(* valid tokens precede or follow it.                                      *)
C10_BadTokenFailsWholeFile ==
    (SelectedHasText
     /\ \E k \in DOMAIN TextTokens(SelectedText) :
            ~ValidToken(TextTokens(SelectedText)[k]))
    => exc = "ValueError" /\ coords = <<>>

C10_Witness ==
    /\ SelectedHasText
    /\ Len(TextTokens(SelectedText)) = 2
    /\ ValidToken(TextTokens(SelectedText)[1])
    /\ Len(SplitSep(TextTokens(SelectedText)[2], Comma, <<>>, <<>>)) = 4
    /\ exc = "ValueError"

----------------------------------------------------------------------------
(* set_times applied to a list of points *)

Datetimes == {Datetime(us, aware) : us \in 0..DatetimeMax, aware \in BOOLEAN}

PointLists ==
    {[i \in 1..n |-> TrackPoint(10 * i, 20, 30)] : n \in 0..MaxPoints}

InitTimes ==
    /\ coords \in PointLists
    /\ files = [p \in Paths |-> None]
    /\ kml = None
    /\ lastOp = "init"
    /\ lastArg = [start_time |-> Datetime(0, FALSE),
                  end_time |-> Datetime(0, FALSE)]
    /\ exc = NoExc
    /\ NoAssembly
    /\ NoRadar

\* applied once to the list a file's extraction produced
SetTimes(start_time, end_time) ==
    /\ lastOp = "init"
    /\ \E r \in {set_times(coords, start_time, end_time)} :
          /\ coords' = r.coords
          /\ exc' = r.exc
    /\ lastOp' = "set_times"
    /\ lastArg' = [start_time |-> start_time, end_time |-> end_time]
    /\ UNCHANGED <<files, kml, assemblyVars, radarVars>>

NextTimes == \E s \in Datetimes, e \in Datetimes : SetTimes(s, e)

SpecTimes == InitTimes /\ [][NextTimes]_vars

\* set_times returned on a non-empty list
Stamped == lastOp = "set_times" /\ exc = NoExc /\ Len(coords) > 0
Interval == lastArg.end_time.us - lastArg.start_time.us

(* C2 as stated: on a non-empty list of n points set_times assigns         *)
(* points[i].time = start + i * (end - start) / n exactly, for i in        *)
(* 0..n-1, the last point landing one n-th of the interval before end.     *)
C2_ExactFractions ==
    Stamped =>
        \A i \in DOMAIN coords :
            /\ coords[i].time # None
            /\ Len(coords) * (coords[i].time[1].us - lastArg.start_time.us)
                   = (i - 1) * Interval

\* the multiple of a microsecond nearest to a / n, the even one on a tie
NearestMicrosecond(a, n) ==
    CHOOSE q \in -DatetimeMax..DatetimeMax :
        LET d == IF n * q >= a THEN n * q - a ELSE a - n * q IN
        2 * d < n \/ (2 * d = n /\ q % 2 = 0)

(* C2, amended: whenever set_times returns on a non-empty list of n        *)
(* points, points[i].time = start + i * delta for i in 0..n-1, where delta *)
(* is (end - start) / n rounded to the nearest microsecond, ties to even.  *)
C2_RoundedDelta ==
    Stamped =>
        \A i \in DOMAIN coords :
            coords[i].time =
                Some(Datetime(lastArg.start_time.us
                                + (i - 1) * NearestMicrosecond(Interval,
                                                               Len(coords)),
                              lastArg.start_time.aware))

C2_Witness ==
    /\ Stamped
    /\ Len(coords) = 3
    /\ Interval = 5
    /\ coords[3].time[1].us = lastArg.start_time.us + 4

----------------------------------------------------------------------------
(* Conversion runs over a fixed file system: the KmlInputHandler of the    *)
(* kml sub-command (check_arguments, called once, and to_gpx), the         *)
(* script's main, and load_from_files called on its own                    *)

AltitudeDocument(text) ==
    Document(NoPrefix, StandardNsmap,
             <<Placemark(KML22, TRUE, <<"Speed">>, <<"clampToGround">>,
                         <<Some(TokenC)>>),
               Placemark(KML22, TRUE, <<"Altitude">>, <<"absolute">>,
                         <<Some(text)>>)>>)

FileSystem ==
    [p \in {"a.kml", "b.kml", "bad.kml", "blank.kml", "missing.kml"} |->
        CASE p = "a.kml" -> Some(AltitudeDocument(TokenA \o <<" ">> \o TokenB))
          [] p = "b.kml" -> Some(AltitudeDocument(<<"\n">> \o TokenC))
          [] p = "blank.kml" -> Some(AltitudeDocument(<<"\n", "\t">>))
          [] p = "bad.kml" ->
                Some(AltitudeDocument(TokenA \o <<"\n">> \o TokenTwoFields))
          [] p = "missing.kml" -> None]

InputFiles == DOMAIN FileSystem
RawTimes == DOMAIN IsoTable
OptionLayers == {"Altitude", ""}

ListsOver(S, n) == UNION {[1..k -> S] : k \in 0..n}

OptionSets ==
    [input : ListsOver(InputFiles, MaxFiles),
     start : ListsOver(RawTimes, MaxTimes),
     end : ListsOver(RawTimes, MaxTimes),
     layer : OptionLayers]

\* the arguments of a direct load_from_files call
TimeLists ==
    [input : ListsOver(InputFiles, MaxFiles),
     start : ListsOver({None, Some(Datetime(0, FALSE))}, MaxTimes),
     end : ListsOver({None, Some(Datetime(5, FALSE))}, MaxTimes),
     layer : OptionLayers]

InitAssemble ==
    /\ files = FileSystem
    /\ kml = None
    /\ coords = <<>>
    /\ lastOp = "init"
    /\ lastArg = [input |-> <<>>, start |-> <<>>, end |-> <<>>,
                  layer |-> "Altitude"]
    /\ exc = NoExc
    /\ NoAssembly
    /\ NoRadar

Handler_check_arguments ==
    /\ lastOp \in {"init", "to_gpx"}
    /\ validation = "NotCalled"
    /\ \E options \in OptionSets :
          \E r \in {check_arguments(files, handler, options)} :
          /\ handler' = r.self
          /\ validation' = r.exc
          /\ exc' = r.exc
          /\ lastArg' = options
    /\ lastOp' = "check_arguments"
    /\ track' = <<>>
    /\ opened' = <<>>
    /\ UNCHANGED <<files, parserVars, ret, written, radarVars>>

Handler_to_gpx ==
    /\ lastOp \in {"init", "check_arguments", "to_gpx"}
    /\ \E r \in {to_gpx(files, handler)} :
          /\ exc' = r.exc
          /\ track' = r.track
          /\ opened' = r.opened
    /\ lastOp' = "to_gpx"
    /\ UNCHANGED <<files, parserVars, lastArg, handler, validation, ret,
                   written, radarVars>>

Script_main ==
    /\ lastOp = "init"
    /\ \E options \in OptionSets :
          \E r \in {main(files, options)} :
          /\ ret' = r.ret
          /\ exc' = r.exc
          /\ opened' = r.opened
          /\ track' = r.track
          /\ written' = r.written
          /\ lastArg' = options
    /\ lastOp' = "main"
    /\ UNCHANGED <<files, parserVars, handler, validation, radarVars>>

Call_load_from_files ==
    /\ lastOp = "init"
    /\ \E args \in TimeLists :
          \E r \in {load_from_files(files, args.input, args.start,
                                    args.end, args.layer)} :
          /\ exc' = r.exc
          /\ opened' = r.opened
          /\ track' = r.track
          /\ lastArg' = args
    /\ lastOp' = "load_from_files"
    /\ UNCHANGED <<files, parserVars, handler, validation, ret, written,
                   radarVars>>

NextAssemble ==
    \/ Handler_check_arguments
    \/ Handler_to_gpx
    \/ Script_main
    \/ Call_load_from_files

SpecAssemble == InitAssemble /\ [][NextAssemble]_vars

----------------------------------------------------------------------------
(* Vocabulary of the assembly properties *)

\* the tokens of a file's coordinates text for a layer
FileTokens(path, layer) ==
    LET root == files[path][1]
        p == root.placemarks[Min(NamedPositions(root, layer))]
    IN  TextTokens(p.coordinates[1][1])

\* a segment holds the points of a file: one per token, in token order
SegmentOfFile(segment, path, layer) ==
    /\ Len(segment) = Len(FileTokens(path, layer))
    /\ \A j \in DOMAIN segment :
          LET tok == FileTokens(path, layer)[j] IN
          /\ segment[j].longitude = FloatTable[tok[1]]
          /\ segment[j].latitude = FloatTable[tok[3]]
          /\ segment[j].elevation = FloatTable[tok[5]]

\* an assembly over validated input files returned its track
Assembled ==
    \/ lastOp = "to_gpx" /\ validation = NoExc /\ exc = NoExc
    \/ lastOp = "main" /\ ret = Some(0)
    \/ lastOp = "load_from_files" /\ exc = NoExc

FilesExist(o) == \A i \in DOMAIN o.input : files[o.input[i]] # None

\* the numbers of start times, end times and input files disagree
CountsMismatch(o) ==
    \/ Len(o.start) # Len(o.end)
    \/ Len(o.start) # 0 /\ Len(o.start) # Len(o.input)

(* C3: assembling a track from k validated input files gives a track of    *)
(* exactly k segments, the i-th holding the points of the i-th input file  *)
(* (one per coordinate token of that file), in file-input order.           *)
C3_OneSegmentPerFile ==
    Assembled =>
        /\ Len(track) = Len(lastArg.input)
        /\ \A i \in DOMAIN track :
               SegmentOfFile(track[i], lastArg.input[i], lastArg.layer)
        /\ lastOp = "main" => written # None /\ written[1].tracks = <<track>>

C3_Witness ==
    /\ lastOp = "to_gpx"
    /\ Assembled
    /\ lastArg.input = <<"b.kml", "a.kml">>
    /\ Len(track) = 2
    /\ Len(track[1]) = 1
    /\ Len(track[2]) = 2

(* C4: when the number of start times differs from the number of end       *)
(* times, or times are supplied and their number differs from the number   *)
(* of input files, validation fails (ValueError, or exit code 1 of main)   *)
(* before any input file is opened.                                        *)
C4_MismatchFailsBeforeOpen ==
    (lastOp # "init" /\ CountsMismatch(lastArg)) =>
        /\ opened = <<>>
        /\ track = <<>>
        /\ validation # "NotCalled" => validation = "ValueError"
        /\ lastOp = "main" => ret = Some(1) /\ written = None
        /\ lastOp = "load_from_files" => exc = "ValueError"

C4_Witness ==
    /\ lastOp = "check_arguments"
    /\ FilesExist(lastArg)
    /\ lastArg.layer = "Altitude"
    /\ Len(lastArg.input) = 2
    /\ Len(lastArg.start) = 1
    /\ Len(lastArg.end) = 1
    /\ validation = "ValueError"
    /\ opened = <<>>

(* C5: the number of times has to equal the number of input files only if  *)
(* times are supplied: without start and end times, validation succeeds    *)
(* for any non-empty list of existing input files, and every file is       *)
(* paired with an absent start and an absent end time.                     *)
C5_NoTimesValidates ==
    (/\ lastOp \in {"check_arguments", "main"}
     /\ lastArg.start = <<>> /\ lastArg.end = <<>>
     /\ lastArg.input # <<>> /\ FilesExist(lastArg)
     /\ lastArg.layer # "")
    => /\ lastOp = "check_arguments" =>
              /\ validation = NoExc
              /\ handler.start_times = [i \in DOMAIN lastArg.input |-> None]
              /\ handler.end_times = [i \in DOMAIN lastArg.input |-> None]
       /\ lastOp = "main" => ret # Some(1)

\* the start and end time track assembly pairs with the i-th input file
StartOf(i) ==
    CASE lastOp = "load_from_files" -> lastArg.start[i]
      [] lastOp = "to_gpx" -> handler.start_times[i]
      [] lastOp = "main" -> IF lastArg.start = <<>> THEN None
                            ELSE Some(IsoTable[lastArg.start[i]])
EndOf(i) ==
    CASE lastOp = "load_from_files" -> lastArg.end[i]
      [] lastOp = "to_gpx" -> handler.end_times[i]
      [] lastOp = "main" -> IF lastArg.end = <<>> THEN None
                            ELSE Some(IsoTable[lastArg.end[i]])

(* C11: for a file whose start time or end time is absent, assembly does   *)
(* no interpolation: every point of that file's segment keeps its          *)
(* timestamp unset, whatever times the other files were given.             *)
C11_NoTimesNoStamps ==
    Assembled =>
        \A i \in DOMAIN track :
            (StartOf(i) = None \/ EndOf(i) = None)
            => \A j \in DOMAIN track[i] : track[i][j].time = None

C11_Witness ==
    /\ lastOp = "load_from_files"
    /\ Assembled
    /\ lastArg.input = <<"a.kml", "b.kml">>
    /\ StartOf(1) # None /\ EndOf(1) # None
    /\ StartOf(2) # None /\ EndOf(2) = None
    /\ track[1][2].time # None
    /\ track[2][1].time = None

\* the microsecond of the i-th point's timestamp after set_times returned
StampOf(i) == coords[i].time[1].us

\* every two consecutive points differ by the same amount
EvenlySpaced ==
    \A i, j \in 1..(Len(coords) - 1) :
        StampOf(i + 1) - StampOf(i) = StampOf(j + 1) - StampOf(j)

(* C12 as stated: whenever timestamps are applied to a point sequence they *)
(* are non-decreasing along the sequence and evenly spaced, the first      *)
(* point carrying the start time.                                          *)
C12_NonDecreasingEvenlySpaced ==
    Stamped =>
        /\ coords[1].time = Some(lastArg.start_time)
        /\ EvenlySpaced
        /\ \A i \in 1..(Len(coords) - 1) : StampOf(i) <= StampOf(i + 1)

(* C12, amended: whenever set_times returns on a point sequence, the first *)
(* point carries the start time and the timestamps are evenly spaced; they *)
(* are non-decreasing when the end time is not before the start time and   *)
(* non-increasing when it is not after it.                                 *)
C12_EvenlySpacedFromStart ==
    Stamped =>
        /\ coords[1].time = Some(lastArg.start_time)
        /\ EvenlySpaced
        /\ Interval >= 0
           => \A i \in 1..(Len(coords) - 1) : StampOf(i) <= StampOf(i + 1)
        /\ Interval <= 0
           => \A i \in 1..(Len(coords) - 1) : StampOf(i) >= StampOf(i + 1)

C12_Witness ==
    /\ Stamped
    /\ Len(coords) >= 3
    /\ Interval > 0
    /\ StampOf(1) < StampOf(2)
    /\ StampOf(2) < StampOf(3)

\* extraction of a file's layer succeeds: the file is a KML 2.2 document
\* whose selected placemark is absolute and holds only lon,lat,alt tokens
FileExtracts(path, layer) ==
    /\ files[path] # None
    /\ LET root == files[path][1] IN
       /\ root.prefix = NoPrefix /\ root.nsmap[NoPrefix] = KML22
       /\ NamedPositions(root, layer) # {}
       /\ LET p == root.placemarks[Min(NamedPositions(root, layer))] IN
          /\ p.altitudeModes # <<>> /\ p.altitudeModes[1] = "absolute"
          /\ p.coordinates # <<>> /\ p.coordinates[1] # None
          /\ \A k \in DOMAIN TextTokens(p.coordinates[1][1]) :
                ValidToken(TextTokens(p.coordinates[1][1])[k])

(* C13: there is no partial-success output: in a run of the script over    *)
(* several input files, if validation fails or the extraction of any one   *)
(* file fails, no GPX output is written and the run does not end with      *)
(* code 0; when an output file is written, every input file has been       *)
(* opened, in order, and extracted successfully.                           *)
C13_NoPartialOutput ==
    lastOp = "main" =>
        /\ (\/ CountsMismatch(lastArg)
            \/ \E i \in DOMAIN lastArg.input :
                  ~FileExtracts(lastArg.input[i], lastArg.layer))
           => written = None /\ ret # Some(0)
        /\ written # None
           => /\ ret = Some(0)
              /\ opened = lastArg.input
              /\ \A i \in DOMAIN lastArg.input :
                    FileExtracts(lastArg.input[i], lastArg.layer)

C13_Witness ==
    /\ lastOp = "main"
    /\ lastArg.input = <<"a.kml", "bad.kml">>
    /\ lastArg.layer = "Altitude"
    /\ ~CountsMismatch(lastArg)
    /\ FileExtracts("a.kml", "Altitude")
    /\ opened = <<"a.kml", "bad.kml">>
    /\ exc = "ValueError"
    /\ written = None

(* C16: during track assembly set_times is only called with a non-empty    *)
(* point sequence, so that no assembly over files accepted by extraction   *)
(* ends with a division by zero, whatever start and end times are given.   *)
C16_NeverDividesByZero ==
    lastOp \in {"to_gpx", "main", "load_from_files"}
    => exc # "ZeroDivisionError"

\* positions of all the placemarks of the document, at any depth and in
\* any namespace, that have a name equal to the layer name
AllNamedPositions(root, layer) ==
    {i \in 1..Len(root.placemarks) :
        \E j \in DOMAIN root.placemarks[i].names :
            root.placemarks[i].names[j] = layer}

\* the outcome of the call is the one placemark p gives: the error of its
\* altitude mode, or its coordinates, or the error of its coordinates
OutcomeFrom(p) ==
    IF p.altitudeModes = <<>> \/ p.altitudeModes[1] # "absolute"
    THEN exc = "ValueError" /\ coords = <<>>
    ELSE IF p.coordinates = <<>> \/ p.coordinates[1] = None
    THEN exc # NoExc /\ coords = <<>>
    ELSE LET toks == TextTokens(p.coordinates[1][1]) IN
         IF \A k \in DOMAIN toks : ValidToken(toks[k])
         THEN /\ exc = NoExc
              /\ coords = [k \in DOMAIN toks |-> PointOfToken(toks[k])]
         ELSE exc = "ValueError" /\ coords = <<>>

(* C15 as stated: when several placemarks have a name equal to the         *)
(* requested layer name, get_coordinates uses only the first of them in    *)
(* document order: the altitude-mode check, the coordinates and any error  *)
(* come from that first match.                                             *)
C15_FirstInDocument ==
    (Extracted /\ Cardinality(AllNamedPositions(kml[1], lastArg)) >= 2)
    => OutcomeFrom(kml[1].placemarks[Min(AllNamedPositions(kml[1],
                                                            lastArg))])

(* C15, amended: among the Placemark elements that are children of the     *)
(* root element, in the root's default namespace, and whose first name     *)
(* equals the requested layer name, get_coordinates uses only the first in *)
(* document order: the altitude-mode check, the coordinates and any error  *)
(* come from it, whatever matching placemarks follow it.                   *)
C15_FirstAmongRootChildren ==
    HasSelected => OutcomeFrom(Selected)

C15_Witness ==
    /\ HasSelected
    /\ Cardinality(NamedPositions(kml[1], lastArg)) = 2
    /\ Selected.altitudeModes = <<"absolute">>
    /\ kml[1].placemarks[2].altitudeModes = <<"clampToGround">>
    /\ exc = NoExc
    /\ coords = <<PointOfToken(Selected.coordinates[1][1])>>
    /\ coords[1].altitude = FloatTable["3.0"]

----------------------------------------------------------------------------
(* A PrivateRadarHandler, its configuration files and its server *)

ConfigurationFile(section, url, token) ==
    [section |-> section, url |-> url, token |-> token]

\* configuration files: without the section, and with the section and
\* each of its two options present or absent
ConfigurationFiles ==
    {ConfigurationFile(FALSE, None, None)}
    \cup {ConfigurationFile(TRUE, u, t)
          : u \in {None, Some("https://conf.example")},
            t \in {None, Some("conf-token")}}

\* the first well-known file is any configuration file or absent, the
\* second one and the file of --conf are complete when they exist
RadarFileSystems ==
    {[p \in {"./kml2gpx.ini", "./private_radar.ini", "my.ini", "absent.ini"}
         |-> CASE p = "./kml2gpx.ini" -> first
               [] p = "./private_radar.ini" -> second
               [] p = "my.ini" ->
                     Some(ConfigurationFile(TRUE, Some("https://my.example"),
                                            Some("my-token")))
               [] p = "absent.ini" -> None]
     : first \in {None} \cup {Some(c) : c \in ConfigurationFiles},
       second \in {None,
                   Some(ConfigurationFile(TRUE, Some("https://second.example"),
                                          Some("second-token")))}}

ServerStates == {"up", "failure", "down"}

\* the options argparse gives to the handler
RadarOptions ==
    [conf : {None, Some("my.ini"), Some("absent.ini")},
     url : {None, Some("https://arg.example")},
     auth : {None, Some("arg-token")},
     list : BOOLEAN,
     nb : {50},
     flight : {None, Some(-1), Some(3)}]

InitRadar ==
    /\ files \in RadarFileSystems
    /\ server \in ServerStates
    /\ radar = NewRadarHandler
    /\ apiCalls = <<>>
    /\ flightLoaded = FALSE
    /\ kml = None
    /\ coords = <<>>
    /\ lastOp = "init"
    /\ lastArg = None
    /\ exc = NoExc
    /\ NoAssembly

Radar_check_arguments ==
    /\ \E options \in RadarOptions :
          \E r \in {radar_check_arguments(files, server, radar, options)} :
          /\ radar' = r.self
          /\ exc' = r.exc
          /\ ret' = r.ret
          /\ apiCalls' = r.calls
          /\ flightLoaded' = (flightLoaded
                              \/ (r.exc = NoExc /\ ~options.list))
          /\ lastArg' = Some(options)
    /\ lastOp' = "check_arguments"
    /\ track' = <<>>
    /\ UNCHANGED <<files, parserVars, handler, validation, opened, written,
                   server>>

Radar_to_gpx ==
    /\ \E r \in {radar_to_gpx(radar, server)} :
          /\ exc' = r.exc
          /\ track' = r.track
          /\ apiCalls' = r.calls
    /\ lastOp' = "to_gpx"
    /\ lastArg' = None
    /\ ret' = None
    /\ UNCHANGED <<files, parserVars, handler, validation, opened, written,
                   radar, server, flightLoaded>>

Radar_get_default_output_path ==
    /\ ret' = get_default_output_path(radar)
    /\ exc' = NoExc
    /\ apiCalls' = <<>>
    /\ track' = <<>>
    /\ lastOp' = "get_default_output_path"
    /\ lastArg' = None
    /\ UNCHANGED <<files, parserVars, handler, validation, opened, written,
                   radar, server, flightLoaded>>

\* the server starts to answer in another way
Server_changes ==
    /\ \E s \in ServerStates \ {server} : server' = s
    /\ UNCHANGED <<files, parserVars, lastOp, lastArg, exc, assemblyVars,
                   radar, apiCalls, flightLoaded>>

NextRadar ==
    \/ Radar_check_arguments
    \/ Radar_to_gpx
    \/ Radar_get_default_output_path
    \/ Server_changes

SpecRadar == InitRadar /\ [][NextRadar]_vars

\* the options of the last check_arguments call of the remote-API handler
Options == lastArg[1]

\* the configuration file that call reads: the one of --conf, or else
\* the first well-known one that exists
ConfigurationUsed ==
    IF Options.conf # None THEN files[Options.conf[1]]
    ELSE IF files["./kml2gpx.ini"] # None THEN files["./kml2gpx.ini"]
    ELSE files["./private_radar.ini"]

\* the URL and the token the configuration file gives, or None
ConfiguredUrl ==
    IF ConfigurationUsed = None \/ ~ConfigurationUsed[1].section THEN None
    ELSE ConfigurationUsed[1].url
ConfiguredToken ==
    IF ConfigurationUsed = None \/ ~ConfigurationUsed[1].section THEN None
    ELSE ConfigurationUsed[1].token

\* the explicit argument when one is given, otherwise the configured value
ResultingUrl == IF Options.url # None THEN Options.url ELSE ConfiguredUrl
ResultingToken ==
    IF Options.auth # None THEN Options.auth ELSE ConfiguredToken

\* the API clients the last operation built
ClientsBuilt ==
    {i \in DOMAIN apiCalls : apiCalls[i].op = "PrivateRadar"}

(* C14: in the remote-API handler's check_arguments the URL and the token  *)
(* of the API client built are each the explicit argument when one is      *)
(* given and the value of the configuration file otherwise; when the       *)
(* resulting URL or token is missing the call raises ValueError and builds *)
(* no API client.                                                          *)
C14_ArgumentsOverrideConfiguration ==
    lastOp = "check_arguments" =>
        /\ \A i \in ClientsBuilt :
              /\ Some(apiCalls[i].base_url) = ResultingUrl
              /\ Some(apiCalls[i].auth) = ResultingToken
        /\ (ResultingUrl = None \/ ResultingToken = None)
           => exc = "ValueError" /\ ClientsBuilt = {}

(* C17: over any sequence of calls on a PrivateRadarHandler, to_gpx sends  *)
(* a flight-path request or returns a track only if some earlier           *)
(* check_arguments call returned with a flight loaded; as long as none     *)
(* did (never called, raised, or returned early for --list), to_gpx raises *)
(* ValueError without sending a request and get_default_output_path        *)
(* returns no path.                                                        *)
C17_FlightLoadedFirst ==
    /\ lastOp = "to_gpx" =>
          /\ (exc = NoExc \/ apiCalls # <<>>) => flightLoaded
          /\ ~flightLoaded
             => exc = "ValueError" /\ apiCalls = <<>> /\ track = <<>>
    /\ lastOp = "get_default_output_path" =>
          /\ ret # None => flightLoaded
          /\ ~flightLoaded => ret = None

C17_Witness ==
    /\ lastOp = "to_gpx"
    /\ radar.api # None
    /\ radar.flight = None
    /\ ~flightLoaded
    /\ server = "up"
    /\ exc = "ValueError"
    /\ apiCalls = <<>>

\* to_gpx returned the track of the flight an earlier call loaded
C17_TrackReturned ==
    /\ lastOp = "to_gpx"
    /\ flightLoaded
    /\ exc = NoExc
    /\ Len(track) = 1
    /\ Len(track[1]) = Len(ServerPath)
    /\ Len(apiCalls) = 1 /\ apiCalls[1].op = "get_path"

====
